---- MODULE Spec2Model ----
(***************************************************************************)
(* A model of the iktomi / insanities form and authentication code:        *)
(*   - the split of a declared item list into `fields` and `widgets`       *)
(*     (iktomi/forms/base.py, iktomi/forms/fields.py),                      *)
(*   - the cookie authentication handlers (insanities/auth.py),            *)
(*   - the password helpers (insanities/auth.py),                          *)
(*   - FieldSet.accept and the copy protocol of fields and widgets         *)
(*     (iktomi/forms/fields.py, iktomi/forms/widgets.py),                  *)
(*   - set_raw_value, FieldList.accept, Field.accept and Widget.render     *)
(*     (iktomi/forms/fields.py, iktomi/forms/widgets.py).                  *)
(* Each part has its own specification; the variables of the other parts   *)
(* stay at their idle value.                                               *)
(***************************************************************************)
EXTENDS Integers, Sequences, FiniteSets, TLC

VARIABLES
    declared,   \* the `fields` list a Form class / FieldSet constructor is given
    obj,        \* the constructed container: cls, fields, widgets, raised
    pw,         \* one encrypt_password / check_password round: inputs and results
    storage,    \* the session storage of one CookieAuth: storage key -> value
    issued,     \* history: the keys login_identity has generated so far
    loggedOut,  \* history: per key, the logout seen since the last login
    last,       \* the last request handled: what came in and what came out
    fs,         \* a FieldSet, the form data around it and what accept() did
    heap,       \* the field, converter and widget objects, by identity
    call,       \* the last constructor call or field call and its outcome
    srv,        \* one set_raw_value call: field, value, multidicts before/after
    fl,         \* a FieldList, the form data around it and what accept() did
    rw,         \* a widget, the field it is bound to and what render() did
    fa          \* a field, the raw values under its name and what accept() did

\* An optional Python value: None is the empty set, a value v is {v}.
None == {}
Some(v) == {v}
The(o) == CHOOSE v \in o : TRUE

(***************************************************************************)
(* Bounds                                                                  *)
(***************************************************************************)
MaxDeclLen == 2     \* longest declared item list
MaxBlockLen == 2    \* longest item list inside a FieldBlock

SeqsUpTo(S, n) == UNION {[1..k -> S] : k \in 0..n}

(***************************************************************************)
(* Part 1: declared items, get_fields / get_widgets                        *)
(***************************************************************************)
\* A BaseField instance (Field, FieldSet, FieldList), known by its name.
BaseField(n) == [kind |-> "field", name |-> n, fields |-> <<>>]

\* field.widget: the widget instance BaseField.__init__ binds to the field.
WidgetOf(f) == [kind |-> "widget", name |-> f.name, fields |-> <<>>]

\* A NoFieldWidget instance (not a FieldBlock).
NoFieldWidget == [kind |-> "nfw", name |-> "", fields |-> <<>>]

\* A FieldBlock instance: a NoFieldWidget subclass that keeps its own list.
FieldBlock(lst) == [kind |-> "block", name |-> "", fields |-> lst]

\* An object that is neither a BaseField nor a NoFieldWidget.
OtherObject == [kind |-> "other", name |-> "", fields |-> <<>>]

isBaseField(x) == x.kind = "field"
isFieldBlock(x) == x.kind = "block"
\* isinstance(x, NoFieldWidget): FieldBlock subclasses NoFieldWidget.
isNoFieldWidget(x) == x.kind \in {"nfw", "block"}

FieldNames == {"f1", "f2"}
LeafItems == {BaseField(n) : n \in FieldNames} \cup {NoFieldWidget}
Blocks == {FieldBlock(lst) : lst \in SeqsUpTo(LeafItems, MaxBlockLen)}
Items == LeafItems \cup Blocks \cup {OtherObject}
DeclaredLists == SeqsUpTo(Items, MaxDeclLen)

\* HasFields.get_fields raises RuntimeError on the first item that is none of
\* BaseField, FieldBlock, NoFieldWidget.
get_fields_raises(lst) ==
    \E i \in 1..Len(lst) :
        /\ ~isBaseField(lst[i])
        /\ ~isFieldBlock(lst[i])
        /\ ~isNoFieldWidget(lst[i])

RECURSIVE get_fields(_)
get_fields(lst) ==
    IF lst = <<>> THEN <<>>
    ELSE LET field == Head(lst)
             rest == get_fields(Tail(lst))
         IN  IF isBaseField(field) THEN <<field>> \o rest
             ELSE IF isFieldBlock(field) THEN field.fields \o rest
             ELSE rest

RECURSIVE get_widgets(_)
get_widgets(lst) ==
    IF lst = <<>> THEN <<>>
    ELSE LET field == Head(lst)
             rest == get_widgets(Tail(lst))
         IN  IF isBaseField(field) THEN <<WidgetOf(field)>> \o rest
             ELSE IF isNoFieldWidget(field) THEN <<field>> \o rest
             ELSE rest

\* fields._get_fields: as HasFields.get_fields, without the raise.
RECURSIVE fields_get_fields(_)
fields_get_fields(lst) ==
    IF lst = <<>> THEN <<>>
    ELSE LET field == Head(lst)
             rest == fields_get_fields(Tail(lst))
         IN  IF isBaseField(field) THEN <<field>> \o rest
             ELSE IF isFieldBlock(field) THEN field.fields \o rest
             ELSE rest

RECURSIVE fields_get_widgets(_)
fields_get_widgets(lst) ==
    IF lst = <<>> THEN <<>>
    ELSE LET field == Head(lst)
             rest == fields_get_widgets(Tail(lst))
         IN  IF isBaseField(field) THEN <<WidgetOf(field)>> \o rest
             ELSE IF isNoFieldWidget(field) THEN <<field>> \o rest
             ELSE rest

NoObject == [cls |-> "none", fields |-> <<>>, widgets |-> <<>>, raised |-> FALSE]

\* HasFields.__init__ with its two assignments in the other order: widgets
\* computed after `fields` was replaced by the flat list.
HasFields_swapped(lst) ==
    IF get_fields_raises(lst)
    THEN [cls |-> "Form", fields |-> lst, widgets |-> <<>>, raised |-> TRUE]
    ELSE LET flat == get_fields(lst)
         IN  [cls |-> "Form", fields |-> flat, widgets |-> get_widgets(flat),
              raised |-> FALSE]

\* HasFields.__init__: widgets from the mixed list, then fields replaced by
\* the flat list. A RuntimeError of get_fields leaves `fields` as declared.
HasFields_init(lst) ==
    LET ws == get_widgets(lst)
    IN  IF get_fields_raises(lst)
        THEN [cls |-> "Form", fields |-> lst, widgets |-> ws, raised |-> TRUE]
        ELSE [cls |-> "Form", fields |-> get_fields(lst), widgets |-> ws,
              raised |-> FALSE]

\* The last two lines of FieldSet.__init__.
FieldSet_init(lst) ==
    LET ws == fields_get_widgets(lst)
    IN  [cls |-> "FieldSet", fields |-> fields_get_fields(lst), widgets |-> ws,
         raised |-> FALSE]

\* FieldSet.get_field for a name without a dot: the first entry of `fields`
\* with that name, None when there is none.
get_field(fields, name) ==
    LET found == {i \in 1..Len(fields) : fields[i].name = name}
    IN  IF found = {} THEN None
        ELSE Some(CHOOSE i \in found : \A j \in found : i <= j)

initVars == <<declared, obj>>

InitDecl ==
    /\ declared \in DeclaredLists
    /\ obj = NoObject

FormInit ==
    /\ obj.cls = "none"
    /\ obj' = HasFields_init(declared)
    /\ UNCHANGED declared

FieldSetInit ==
    /\ obj.cls = "none"
    /\ obj' = FieldSet_init(declared)
    /\ UNCHANGED declared

(***************************************************************************)
(* Part 2: encrypt_password / check_password                               *)
(* A Python 2 string is a record: u says whether it is a unicode object,   *)
(* s is its sequence of characters (code points, or bytes for a str).      *)
(***************************************************************************)
MaxPwLen == 2       \* longest raw password
MaxSaltLen == 2     \* longest salt given by the caller
SaltLen == 2        \* length of a generated salt (5 in the code)

U(s) == [u |-> TRUE, s |-> s]
B(s) == [u |-> FALSE, s |-> s]

\* Characters: ASCII letters, the separator, hex digits, one non-ASCII code
\* point and the two bytes of its UTF-8 encoding.
HexChars == {"0", "f"}
AsciiChars == {"a", "$"} \cup HexChars
NonAscii == "e-acute"
Utf8Of(c) == IF c = NonAscii THEN <<"c3", "a9">> ELSE <<c>>
isAscii(c) == c \in AsciiChars \/ c \in {"sha1", "md5"}

RECURSIVE Utf8Bytes(_)
Utf8Bytes(s) == IF s = <<>> THEN <<>> ELSE Utf8Of(Head(s)) \o Utf8Bytes(Tail(s))

Ok(v) == [ok |-> TRUE, val |-> v, err |-> ""]
Raise(e) == [ok |-> FALSE, val |-> B(<<>>), err |-> e]

\* x.encode('utf-8') in Python 2: a unicode object is encoded; a str is first
\* decoded as ASCII, which raises on a non-ASCII byte.
encode_utf8(x) ==
    IF x.u THEN Ok(B(Utf8Bytes(x.s)))
    ELSE IF \A i \in 1..Len(x.s) : isAscii(x.s[i]) THEN Ok(x)
    ELSE Raise("UnicodeDecodeError")

\* The digest functions hashlib supports in this model.
Algorithms == {"sha1", "md5"}

\* hashlib.new(algorithm, data).hexdigest(): a deterministic hex string, one
\* token here, that depends on the algorithm and on every byte of the data.
hexdigest(algorithm, data) == <<ToString(<<algorithm, data>>)>>

\* os.urandom(3).encode('hex')[:5]: any string of hex digits of that length.
GeneratedSalts == {B(s) : s \in [1..SaltLen -> HexChars]}

\* encrypt_password(raw_password, algorithm, salt) with the salt known: the
\* given one, or the generated one when salt is None.
encrypt_password(raw_password, algorithm, salt) ==
    LET raw == encode_utf8(raw_password)
        slt == encode_utf8(salt)
    IN  IF ~raw.ok THEN raw
        ELSE IF ~slt.ok THEN slt
        ELSE IF algorithm.s \notin {<<a>> : a \in Algorithms}
        THEN Raise("ValueError")
        ELSE Ok(B(algorithm.s \o <<"$">> \o slt.val.s \o <<"$">>
                  \o hexdigest(algorithm.s[1], slt.val.s \o raw.val.s)))

\* s.split('$')
RECURSIVE split(_)
split(s) ==
    IF \A i \in 1..Len(s) : s[i] # "$" THEN <<s>>
    ELSE LET i == CHOOSE j \in 1..Len(s) :
                      s[j] = "$" /\ \A k \in 1..(j - 1) : s[k] # "$"
         IN  <<SubSeq(s, 1, i - 1)>> \o split(SubSeq(s, i + 1, Len(s)))

RaiseB(e) == [ok |-> FALSE, val |-> FALSE, err |-> e]

\* algo, salt, hsh = enc_password.split('$') raises ValueError unless the
\* split gives exactly three parts.
check_password(raw_password, enc_password) ==
    LET parts == split(enc_password.s)
    IN  IF Len(parts) # 3 THEN RaiseB("ValueError")
        ELSE LET again == encrypt_password(raw_password,
                                           [u |-> enc_password.u, s |-> parts[1]],
                                           [u |-> enc_password.u, s |-> parts[2]])
             IN  IF ~again.ok THEN RaiseB(again.err)
                 ELSE [ok |-> TRUE, val |-> (enc_password = again.val), err |-> ""]

RawPasswords == {U(s) : s \in SeqsUpTo({"a", "$", NonAscii}, MaxPwLen)}
GivenSalts == {U(s) : s \in SeqsUpTo({"a", "$", NonAscii}, MaxSaltLen)}

NoResult == Raise("not run")
NoCheck == RaiseB("not run")

pwIdle ==
    [stage |-> "idle", raw |-> U(<<>>), algorithm |-> B(<<"sha1">>),
     salt_given |-> FALSE, salt |-> B(<<>>), enc |-> NoResult, check |-> NoCheck]

InitPw ==
    \E raw \in RawPasswords, a \in Algorithms, given \in BOOLEAN, s \in GivenSalts :
        /\ ~given => s = U(<<>>)
        /\ pw = [stage |-> "args", raw |-> raw, algorithm |-> B(<<a>>),
                 salt_given |-> given, salt |-> s,
                 enc |-> NoResult, check |-> NoCheck]

\* encrypt_password(raw, algorithm, salt): salt None draws a generated salt.
Encrypt ==
    /\ pw.stage = "args"
    /\ \E s \in (IF pw.salt_given THEN {pw.salt} ELSE GeneratedSalts) :
          pw' = [pw EXCEPT !.stage = "encrypted", !.salt = s,
                           !.enc = encrypt_password(pw.raw, pw.algorithm, s)]

\* check_password(raw, enc) on the string Encrypt returned.
Check ==
    /\ pw.stage = "encrypted"
    /\ pw.enc.ok
    /\ pw' = [pw EXCEPT !.stage = "checked",
                        !.check = check_password(pw.raw, pw.enc.val)]

(***************************************************************************)
(* Part 3: CookieAuth (insanities/auth.py)                                 *)
(***************************************************************************)
MaxKeys == 2        \* number of distinct values os.urandom(10) can give here
MaxUsers == 2       \* number of rows of the user table

cookie_name == "auth"
redirect_to == "/"
wrong_msg == "user or password is wrong"

\* os.urandom(10).encode('hex'): the key of a session; a request may carry
\* any of them as its cookie, issued or not.
Keys == 1..MaxKeys

\* cookie_name + ':' + key.encode('utf-8')
StorageKey(key) == <<cookie_name, ":", key>>
StorageKeys == {StorageKey(k) : k \in Keys}

\* The user table behind SqlaModelAuth: id, login and encrypted password.
UserIds == 1..MaxUsers
LoginOf(i) == <<"user", i>>
PasswordOf(i) == U([j \in 1..i |-> "a"])
UserRow(i) ==
    [id |-> i, login |-> LoginOf(i),
     password |-> encrypt_password(PasswordOf(i), B(<<"sha1">>),
                                   B([j \in 1..SaltLen |-> "f"])).val]

\* str(user_identity)
str(identity) == ToString(identity)

\* The pluggable key-value store: get, set and delete on a dictionary. `up`
\* says whether the store is reachable for this call; an unreachable store
\* answers None / False and keeps what it holds.
storage_get(st, key, up) == IF up THEN st[key] ELSE None
storage_set(st, key, value, up) ==
    [ok |-> up, st |-> IF up THEN [st EXCEPT ![key] = Some(value)] ELSE st]
storage_delete(st, key, up) ==
    [ok |-> up, st |-> IF up THEN [st EXCEPT ![key] = None] ELSE st]

\* SqlaModelAuth.get_user_identity: the id of the row with that login when
\* the password checks, else None. db is the set of ids of the rows present.
get_user_identity(db, login, password) ==
    LET found == {i \in db : UserRow(i).login = login}
    IN  IF found = {} THEN None
        ELSE LET user == UserRow(The(found))
                 chk == check_password(password, user.password)
             IN  IF chk.ok /\ chk.val THEN Some(user.id) ELSE None

\* SqlaModelAuth.identify_user: the row whose id the stored identity names.
identify_user(db, user_identity) ==
    LET found == {i \in db : str(i) = user_identity}
    IN  IF found = {} THEN None ELSE Some(UserRow(The(found)))

\* web.Response(): status 200, no Location, no cookie set or deleted, nothing
\* rendered.
NoUrl == [path |-> "", next |-> None]
PlainUrl(path) == [path |-> path, next |-> None]
NoBody == [template |-> "", message |-> "", next |-> ""]
Response == [status |-> 200, location |-> NoUrl, set_cookie |-> None,
             delete_cookie |-> FALSE, body |-> NoBody]
\* What the next handler returns: not a response of this module.
NextResult == [status |-> 0, location |-> NoUrl, set_cookie |-> None,
               delete_cookie |-> FALSE, body |-> NoBody]

\* env.root.login.as_url and as_url.qs_set(next=...)
login_url == PlainUrl("/login")
qs_set_next(url, next) == [url EXCEPT !.next = Some(next)]

Paths == {"/", "/private"}

\* CookieAuth.handle with the storage lookup dropped: any stored session
\* identifies the request.
handle_any_session(st, cookies, db, up) ==
    LET held == {sk \in StorageKeys : st[sk] # None}
    IN  IF held = {} THEN None
        ELSE identify_user(db, The(st[CHOOSE sk \in held : TRUE]))

\* CookieAuth.handle: the value of env.user the next handler is called with.
handle(st, cookies, db, up) ==
    IF cookie_name \in DOMAIN cookies
    THEN LET key == cookies[cookie_name]
             user_identity == storage_get(st, StorageKey(key), up)
         IN  IF user_identity # None
             THEN identify_user(db, The(user_identity))
             ELSE None
    ELSE None

\* CookieAuth.login_identity that sets the cookie and stores nothing.
login_identity_no_store(st, user_identity, key, up) ==
    [st |-> st, response |-> [Response EXCEPT !.set_cookie = Some(key)]]

\* CookieAuth.login_identity: cookie set to the new key, identity stored
\* under it (a failed set is logged only).
login_identity(st, user_identity, key, up) ==
    [st |-> storage_set(st, StorageKey(key), str(user_identity), up).st,
     response |-> [Response EXCEPT !.set_cookie = Some(key)]]

\* CookieAuth.logout_user that deletes the cookie only.
logout_user_keeps_session(st, cookies, up) ==
    [st |-> st, response |-> [Response EXCEPT !.delete_cookie = TRUE]]

\* CookieAuth.logout_user that ends every session the storage holds.
logout_user_all_sessions(st, cookies, up) ==
    [st |-> [sk \in StorageKeys |-> None],
     response |-> [Response EXCEPT !.delete_cookie = TRUE]]

\* CookieAuth.logout_user: cookie deleted, session deleted from the storage
\* (a failed delete is logged only). Called with the cookie present.
logout_user(st, cookies, up) ==
    LET key == cookies[cookie_name]
    IN  [st |-> storage_delete(st, StorageKey(key), up).st,
         response |-> [Response EXCEPT !.delete_cookie = TRUE]]

\* _logout of CookieAuth.logout: called_next says the request was passed on.
logout(st, cookies, up) ==
    IF cookie_name \in DOMAIN cookies
    THEN LET out == logout_user(st, cookies, up)
         IN  [st |-> out.st, called_next |-> FALSE,
              response |-> [out.response EXCEPT !.status = 303,
                                                !.location = PlainUrl(redirect_to)]]
    ELSE [st |-> st, called_next |-> TRUE, response |-> NextResult]

\* _login of CookieAuth.login. form_valid is what form.accept(POST) returned,
\* user_identity what get_user_identity returned for the form's data.
login(st, method, GET, form_valid, user_identity, key, up) ==
    LET next == IF "next" \in DOMAIN GET THEN GET["next"] ELSE "/"
        rendered(msg) ==
            [st |-> st,
             response |-> [Response EXCEPT
                 !.body = [template |-> "login", message |-> msg, next |-> next]]]
    IN  IF method = "POST"
        THEN IF form_valid
             THEN IF user_identity # None
                  THEN LET out == login_identity(st, The(user_identity), key, up)
                       IN  [st |-> out.st,
                            response |-> [out.response EXCEPT
                                !.status = 303, !.location = PlainUrl(next)]]
                  ELSE rendered(wrong_msg)
             ELSE rendered("")
        ELSE rendered("")

\* auth_required on an env that may have no 'user' entry.
auth_required_any_user(env, path_info) ==
    IF env.has_user
    THEN [called_next |-> TRUE, response |-> NextResult]
    ELSE [called_next |-> FALSE,
          response |-> [Response EXCEPT
              !.status = 303, !.location = qs_set_next(login_url, path_info)]]

\* auth_required
auth_required(env, path_info) ==
    IF env.has_user /\ env.user # None
    THEN [called_next |-> TRUE, response |-> NextResult]
    ELSE [called_next |-> FALSE,
          response |-> [Response EXCEPT
              !.status = 303, !.location = qs_set_next(login_url, path_info)]]

\* The requests the handlers are given.
Cookies == {<<>>} \cup {[c \in {cookie_name} |-> k] : k \in Keys}
GETs == {<<>>} \cup {[q \in {"next"} |-> p] : p \in Paths}
PostedLogins == {LoginOf(i) : i \in 0..MaxUsers}
PostedPasswords == {PasswordOf(i) : i \in 1..MaxUsers}
Envs == {[has_user |-> FALSE, user |-> None], [has_user |-> TRUE, user |-> None]}
            \cup {[has_user |-> TRUE, user |-> Some(UserRow(i))] : i \in UserIds}

\* The storage keys whose value differs between two storages.
Changed(st1, st2) == {sk \in StorageKeys : st1[sk] # st2[sk]}

NoLast ==
    [op |-> "none", cookies |-> <<>>, method |-> "", GET |-> <<>>,
     form_valid |-> FALSE, identity |-> None, env |-> [has_user |-> FALSE, user |-> None],
     path_info |-> "", up |-> TRUE, had_session |-> FALSE,
     env_user |-> None, called_next |-> FALSE, response |-> Response,
     changed |-> {}]

authVars == <<storage, issued, loggedOut, last>>

InitAuth ==
    /\ storage = [sk \in StorageKeys |-> None]
    /\ issued = {}
    /\ loggedOut = [k \in Keys |-> "no"]
    /\ last = NoLast

IdleAuth == InitAuth

\* A direct call of login_identity(user_identity).
LoginIdentity ==
    \E id \in UserIds, key \in Keys, up \in BOOLEAN :
        LET out == login_identity(storage, id, key, up)
        IN  /\ storage' = out.st
            /\ issued' = issued \cup {key}
            /\ loggedOut' = [k \in Keys |-> "no"]
            /\ last' = [NoLast EXCEPT !.op = "login_identity",
                            !.identity = Some(id), !.up = up,
                            !.response = out.response,
                            !.changed = Changed(storage, out.st)]

\* What get_user_identity can return for a posted login and password, over
\* every content of the user table.
PostedIdentities ==
    {get_user_identity(db, lg, pass) :
        db \in SUBSET UserIds, lg \in PostedLogins, pass \in PostedPasswords}

\* A request to /login.
Login ==
    \E method \in {"GET", "POST"}, GET \in GETs, form_valid \in BOOLEAN,
       user_identity \in PostedIdentities, key \in Keys, up \in BOOLEAN :
        \* form.accept runs on a POST only, get_user_identity on a valid form
        \* only, login_identity on an identity only
        /\ method = "GET" => ~form_valid
        /\ ~form_valid => user_identity = None
        /\ user_identity = None => (up /\ key = 1)
        /\ LET out == login(storage, method, GET, form_valid, user_identity, key, up)
               logged_in == out.response.set_cookie # None
           IN  /\ storage' = out.st
               /\ issued' = IF logged_in THEN issued \cup {key} ELSE issued
               /\ loggedOut' = IF logged_in THEN [k \in Keys |-> "no"] ELSE loggedOut
               /\ last' = [NoLast EXCEPT !.op = "login", !.method = method,
                               !.GET = GET, !.form_valid = form_valid,
                               !.identity = user_identity, !.up = up,
                               !.response = out.response,
                               !.changed = Changed(storage, out.st)]

\* A POST request to /logout.
Logout ==
    \E cookies \in Cookies, up \in BOOLEAN :
        \* the storage is asked with a cookie only
        /\ cookies = <<>> => up
        /\ LET out == logout(storage, cookies, up)
               had == /\ cookie_name \in DOMAIN cookies
                      /\ storage[StorageKey(cookies[cookie_name])] # None
           IN  /\ storage' = out.st
               /\ UNCHANGED issued
               /\ loggedOut' =
                     IF cookie_name \in DOMAIN cookies
                     THEN [loggedOut EXCEPT ![cookies[cookie_name]] =
                               IF up THEN "deleted" ELSE "failed"]
                     ELSE loggedOut
               /\ last' = [NoLast EXCEPT !.op = "logout", !.cookies = cookies,
                               !.up = up, !.had_session = had,
                               !.called_next = out.called_next,
                               !.response = out.response,
                               !.changed = Changed(storage, out.st)]

\* Any other request, passing through CookieAuth.handle.
Handle ==
    \E cookies \in Cookies, db \in SUBSET UserIds, up \in BOOLEAN :
        \* the storage is asked with a cookie only, the user table with a
        \* stored identity only
        /\ cookies = <<>> => up
        /\ storage_get(storage, StorageKey(IF cookies = <<>> THEN 1
                                           ELSE cookies[cookie_name]), up) = None
             => db = UserIds
        /\ UNCHANGED <<storage, issued, loggedOut>>
        /\ last' = [NoLast EXCEPT !.op = "handle", !.cookies = cookies,
                        !.up = up,
                        !.env_user = handle(storage, cookies, db, up),
                        !.called_next = TRUE, !.response = NextResult]

\* A request reaching auth_required.
AuthRequired ==
    \E env \in Envs, path_info \in Paths :
        LET out == auth_required(env, path_info)
        IN  /\ UNCHANGED <<storage, issued, loggedOut>>
            /\ last' = [NoLast EXCEPT !.op = "auth_required", !.env = env,
                            !.path_info = path_info,
                            !.env_user = IF out.called_next THEN env.user ELSE None,
                            !.called_next = out.called_next,
                            !.response = out.response]

(***************************************************************************)
(* Part 4: FieldSet.accept (iktomi/forms/fields.py)                        *)
(* The fieldset is the field "fs" of a form; its sub-fields are atomic     *)
(* fields with an integer converter.                                       *)
(***************************************************************************)
MaxSubFields == 2   \* longest list of sub-fields of the fieldset

SubNames == {"a", "b"}
fs_name == "fs"

\* FieldSet.prefix and BaseField.input_name: the form's prefix is ''.
fs_prefix == <<fs_name, ".">>
input_name(f) == fs_prefix \o <<f.name>>
InputNames == {fs_prefix \o <<n>> : n \in SubNames}

\* A sub-field: its class, its name, 'w' in its permissions, its `initial`
\* attribute (None also when it has none) and conv.multiple.
SubFields ==
    [cls : {"Field", "FileField"}, name : SubNames, writable : BOOLEAN,
     initial : {None, Some(3)}, multiple : {FALSE}]

\* The converter of a sub-field, an integer converter: from_python gives the
\* string of a value ('' for None); accept gives the value of a string, None
\* for an empty one, and None with an error for one that is no number.
from_python(value) == IF value = None THEN "" ELSE ToString(The(value))
conv_accept(f, value, errors) ==
    IF value = None \/ value = Some("") THEN [value |-> None, errors |-> errors]
    ELSE IF \E i \in 0..9 : ToString(i) = The(value)
    THEN [value |-> Some(CHOOSE i \in 0..9 : ToString(i) = The(value)),
          errors |-> errors]
    ELSE [value |-> None, errors |-> errors \cup {<<input_name(f), "invalid">>}]

\* form.raw_data, a MultiDict: input name -> the values under it, in order.
RawStrings == {"1", "x"}
MultiDict_get(raw_data, key, default) ==
    IF raw_data[key] = <<>> THEN default ELSE raw_data[key][Len(raw_data[key])]
MultiDict_getall(raw_data, key) == raw_data[key]

\* Field.raw_value
raw_value(f, raw_data) ==
    IF f.multiple THEN MultiDict_getall(raw_data, input_name(f))
    ELSE MultiDict_get(raw_data, input_name(f), "")

\* Field.set_raw_value and FileField.set_raw_value
set_raw_value(f, raw_data, value) ==
    IF f.cls = "FileField" THEN raw_data
    ELSE IF f.multiple THEN [raw_data EXCEPT ![input_name(f)] = value]
    ELSE [raw_data EXCEPT ![input_name(f)] = <<value>>]

\* isinstance(value, basestring)
isBasestring(value) == value \in RawStrings \cup {""}

\* Field._check_value_type and FileField._check_value_type on a single value:
\* the error message, or "" when the value passes. No value here is a
\* FieldStorage or has a read attribute.
check_value_type(f, value) ==
    IF f.cls = "FileField"
    THEN IF value # "" THEN "Given value is not file" ELSE ""
    ELSE IF ~isBasestring(value) THEN "Given value has incompatible type" ELSE ""

\* Field.accept of a field that is not multiple.
Field_accept(f, raw_data, errors) ==
    LET value == raw_value(f, raw_data)
        msg == check_value_type(f, value)
    IN  IF msg # ""
        THEN conv_accept(f, IF f.cls = "FileField" THEN None ELSE Some(""),
                         errors \cup {<<input_name(f), msg>>})
        ELSE conv_accept(f, Some(value), errors)

\* Field.get_initial
Field_get_initial(f) == f.initial

\* FieldSet.get_initial: dict((field.name, field.get_initial()) ...), a later
\* field of the same name replacing an earlier one.
FieldSet_get_initial(fields) ==
    [n \in {fields[i].name : i \in 1..Len(fields)} |->
        LET i == CHOOSE i \in 1..Len(fields) :
                     /\ fields[i].name = n
                     /\ \A j \in (i + 1)..Len(fields) : fields[j].name # n
        IN  Field_get_initial(fields[i])]

\* AggregateField.python_data: the clean value in the parent's python_data,
\* or the initial value when there is none (LookupError).
\* The fieldset's own converter is the class default, convs.Converter, which
\* hands a dict through from_python and accept(silent=True) as it is.
python_data(fields, clean) ==
    IF clean # None THEN The(clean) ELSE FieldSet_get_initial(fields)

\* d[k] = v on a Python dict
dict_set(d, k, v) == [x \in DOMAIN d \cup {k} |-> IF x = k THEN v ELSE d[x]]

\* FieldSet.accept that asks every sub-field, writable or not.
RECURSIVE accept_all(_, _, _, _)
accept_all(fields, result, raw_data, errors) ==
    IF fields = <<>>
    THEN [conv_input |-> result, raw_data |-> raw_data, errors |-> errors]
    ELSE LET field == Head(fields)
             got == Field_accept(field, raw_data, errors)
         IN  accept_all(Tail(fields), dict_set(result, field.name, got.value),
                        raw_data, got.errors)

\* The loop of FieldSet.accept over the sub-fields left, and the dict handed
\* to self.conv.accept at its end.
RECURSIVE accept_loop(_, _, _, _)
accept_loop(fields, result, raw_data, errors) ==
    IF fields = <<>>
    THEN [conv_input |-> result, raw_data |-> raw_data, errors |-> errors]
    ELSE LET field == Head(fields)
         IN  IF field.writable
             THEN LET got == Field_accept(field, raw_data, errors)
                  IN  accept_loop(Tail(fields),
                                  dict_set(result, field.name, got.value),
                                  raw_data, got.errors)
             ELSE accept_loop(Tail(fields), result,
                              set_raw_value(field, raw_data,
                                            from_python(result[field.name])),
                              errors)

\* FieldSet.accept
FieldSet_accept(fields, clean, raw_data, errors) ==
    accept_loop(fields, python_data(fields, clean), raw_data, errors)

CleanValues == [SubNames -> {None, Some(2)}]
RawData == [InputNames -> {<<>>} \cup {<<v>> : v \in RawStrings}]

fsIdle ==
    [stage |-> "idle", fields |-> <<>>, clean |-> None,
     submitted |-> [k \in InputNames |-> <<>>],
     raw_data |-> [k \in InputNames |-> <<>>],
     errors |-> {}, conv_input |-> <<>>]

\* A form with the fieldset, a clean value for it or none, and the submitted
\* raw data.
InitFs ==
    \E fields \in SeqsUpTo(SubFields, MaxSubFields),
       clean \in {None} \cup {Some(d) : d \in CleanValues},
       raw \in RawData :
        fs = [stage |-> "submitted", fields |-> fields, clean |-> clean,
              submitted |-> raw, raw_data |-> raw, errors |-> {},
              conv_input |-> <<>>]

\* FieldSet.accept on the submitted data.
FieldSetAccept ==
    /\ fs.stage = "submitted"
    /\ LET out == FieldSet_accept(fs.fields, fs.clean, fs.raw_data, fs.errors)
       IN  fs' = [fs EXCEPT !.stage = "accepted", !.raw_data = out.raw_data,
                            !.errors = out.errors, !.conv_input = out.conv_input]

(***************************************************************************)
(* Part 5: BaseField.__init__ / BaseField.__call__ / Widget.__call__       *)
(* The heap is the sequence of the objects created so far; an object's     *)
(* identity is its index. kwargs is the object's _init_kwargs, attrs what  *)
(* __dict__.update(kwargs) put on it, field the field a converter or a     *)
(* widget is bound to (0: none).                                           *)
(***************************************************************************)
MaxObjects == 7     \* most objects on the heap

\* A converter or widget argument: a class, an instance, or None.
Class(c) == [inst |-> 0, cls |-> c]
Ref(i) == [inst |-> i, cls |-> ""]
NoneArg == [inst |-> 0, cls |-> ""]

\* The class attributes BaseField.conv and BaseField.widget.
default_conv == "Char"
default_widget == "TextInput"

\* BaseField._obsolete
obsolete == {"default", "get_default", "template"}

\* dict(d, **kwargs)
dict_merge(d, kwargs) ==
    [k \in DOMAIN d \cup DOMAIN kwargs |->
        IF k \in DOMAIN kwargs THEN kwargs[k] ELSE d[k]]

\* Widget.__init__(field, **kwargs), and the same for a converter.
new_bound(kind, cls, field, kwargs) ==
    [kind |-> kind, cls |-> cls, field |-> field, kwargs |-> kwargs,
     attrs |-> kwargs]

\* Widget.__call__(field=field) (and a converter's __call__): a new instance
\* of the same class, from the stored kwargs, bound to the given field.
Widget_call(h, i, field) ==
    new_bound(h[i].kind, h[i].cls, field, h[i].kwargs)

\* (arg or default)(field=self): a class is instantiated, an instance called.
instantiate(h, kind, arg, default, field) ==
    LET what == IF arg = NoneArg THEN Class(default) ELSE arg
    IN  IF what.inst = 0 THEN new_bound(kind, what.cls, field, <<>>)
        ELSE Widget_call(h, what.inst, field)

\* BaseField.__init__(**params) on a new object of class cls: the heap with
\* the field, its converter and its widget added, or a TypeError.
BaseField_init(h, cls, params) ==
    IF DOMAIN params \cap obsolete # {}
    THEN [raised |-> TRUE, heap |-> h, self |-> 0]
    ELSE LET self == Len(h) + 1
             conv == instantiate(h, "conv", params.conv, default_conv, self)
             widget == instantiate(h, "widget",
                                   IF "widget" \in DOMAIN params
                                   THEN params.widget ELSE NoneArg,
                                   default_widget, self)
             kwargs == dict_merge(params,
                           [parent |-> params.parent, name |-> params.name,
                            conv |-> Ref(self + 1), widget |-> Ref(self + 2)])
             field == [kind |-> "field", cls |-> cls, field |-> 0,
                       kwargs |-> kwargs, attrs |-> kwargs]
         IN  [raised |-> FALSE, heap |-> h \o <<field, conv, widget>>,
              self |-> self]

\* BaseField.__call__ that updates the stored arguments in place:
\* self._init_kwargs.update(kwargs) instead of a new dict.
BaseField_call_in_place(h, i, kwargs) ==
    LET params == dict_merge(h[i].kwargs, kwargs)
        out == BaseField_init(h, h[i].cls, params)
    IN  [out EXCEPT !.heap = [out.heap EXCEPT ![i].kwargs = params]]

\* BaseField.__call__(**kwargs)
BaseField_call(h, i, kwargs) ==
    LET params == dict_merge(h[i].kwargs, kwargs)
    IN  BaseField_init(h, h[i].cls, params)

FieldClasses == {"Field", "FileField"}
Parents == {None, Some("form")}
\* The keyword arguments a field is called with.
CallKwargs ==
    {<<>>, [name |-> "other"], [parent |-> Some("form2")], [label |-> "Label"],
     [widget |-> Class("Textarea")], [default |-> "x"],
     [name |-> "other", parent |-> Some("form2")]}

FieldIds(h) == {i \in 1..Len(h) : h[i].kind = "field"}
FreeWidgets(h) == {i \in 1..Len(h) : h[i].kind = "widget" /\ h[i].field = 0}

NoCall == [op |-> "none", orig |-> 0, kwargs |-> <<>>, raised |-> FALSE,
           result |-> 0, before |-> <<>>]

copyVars == <<heap, call>>

InitCopy ==
    /\ heap = <<>>
    /\ call = NoCall

\* widgets.PasswordInput(...): a widget instance bound to no field yet.
NewWidget ==
    \E cls \in {"PasswordInput"}, kwargs \in {<<>>, [classname |-> "big"]} :
        /\ Len(heap) + 1 <= MaxObjects
        /\ heap' = Append(heap, new_bound("widget", cls, 0, kwargs))
        /\ call' = [NoCall EXCEPT !.op = "widget", !.result = Len(heap) + 1,
                        !.before = heap]

\* Field(name, conv=None, parent=..., label=..., widget=...)
NewField ==
    \E cls \in FieldClasses, name \in SubNames, parent \in Parents,
       more \in {<<>>, [label |-> "Name"], [widget |-> Class("Textarea")]}
                    \cup {[widget |-> Ref(w)] : w \in FreeWidgets(heap)} :
        LET params == dict_merge([name |-> name, conv |-> NoneArg,
                                  parent |-> parent], more)
            out == BaseField_init(heap, cls, params)
        IN  /\ Len(heap) + 3 <= MaxObjects
            /\ heap' = out.heap
            /\ call' = [NoCall EXCEPT !.op = "new", !.kwargs = params,
                            !.raised = out.raised, !.result = out.self,
                            !.before = heap]

\* field(**kwargs)
CallField ==
    \E i \in FieldIds(heap), kwargs \in CallKwargs :
        LET out == BaseField_call(heap, i, kwargs)
        IN  /\ Len(heap) + 3 <= MaxObjects
            /\ heap' = out.heap
            /\ call' = [NoCall EXCEPT !.op = "call", !.orig = i,
                            !.kwargs = kwargs, !.raised = out.raised,
                            !.result = out.self, !.before = heap]

(***************************************************************************)
(* Part 6: set_raw_value of Field, FileField, FieldSet and FieldList       *)
(* A field is a tree: cls, name, conv.multiple and, for a FieldSet, its    *)
(* sub-fields, for a FieldList, its item field as the one entry of fields. *)
(* A multidict is a function from the keys it holds to their values, in    *)
(* order; an input name is the sequence of the parts it is joined from.    *)
(***************************************************************************)
MaxItems == 2       \* longest list value of a FieldList

AtomField(n, multiple) ==
    [cls |-> "Field", name |-> n, multiple |-> multiple, fields |-> <<>>]
AtomFileField(n) ==
    [cls |-> "FileField", name |-> n, multiple |-> FALSE, fields |-> <<>>]
FieldSetOf(n, fields) ==
    [cls |-> "FieldSet", name |-> n, multiple |-> FALSE, fields |-> fields]
FieldListOf(n, field) ==
    [cls |-> "FieldList", name |-> n, multiple |-> FALSE, fields |-> <<field>>]

Atoms ==
    {AtomField("a", FALSE), AtomField("a", TRUE), AtomField("b", FALSE),
     AtomFileField("a")}
Level1 ==
    Atoms \cup {FieldSetOf("s", <<x>>) : x \in Atoms}
          \cup {FieldSetOf("s", <<x, AtomField("b", FALSE)>>) : x \in Atoms}
          \cup {FieldListOf("l", x) : x \in Atoms}
FieldTrees ==
    Level1 \cup {FieldSetOf("fs", <<x>>) : x \in Level1}
           \cup {FieldListOf("fl", x) : x \in Level1}

\* MultiDict operations: d[k] = v, del d[k], d.add(k, v).
EmptyDict == <<>>
md_set(md, k, v) == dict_set(md, k, <<v>>)
md_del(md, k) == [x \in DOMAIN md \ {k} |-> md[x]]
md_add(md, k, v) ==
    dict_set(md, k, IF k \in DOMAIN md THEN Append(md[k], v) ELSE <<v>>)
RECURSIVE md_add_all(_, _, _)
md_add_all(md, k, vs) ==
    IF vs = <<>> THEN md ELSE md_add_all(md_add(md, k, Head(vs)), k, Tail(vs))

\* The Python values a field can hold: an integer or None for a field, a
\* list of integers for a multiple one, a dict by name for a FieldSet, a list
\* of item values for a FieldList.
RECURSIVE PyValues(_)
RECURSIVE DictValues(_)
PyValues(f) ==
    CASE f.cls = "FieldSet" -> DictValues(f.fields)
      [] f.cls = "FieldList" ->
            UNION {[1..n -> PyValues(f.fields[1])] : n \in 0..MaxItems}
      [] f.multiple -> {<<>>, <<3>>, <<3, 4>>}
      [] OTHER -> {None, Some(3)}
DictValues(fields) ==
    IF fields = <<>> THEN {EmptyDict}
    ELSE {dict_set(d, Head(fields).name, v) :
              d \in DictValues(Tail(fields)), v \in PyValues(Head(fields))}

\* field.from_python(value), that is self.conv.from_python(value): a dict as
\* it is for a FieldSet, a dict by '1', '2', ... for a FieldList, the list of
\* strings for a multiple field, the string for a field.
index_str(i) == ToString(i)
field_from_python(f, value) ==
    CASE f.cls = "FieldSet" -> value
      [] f.cls = "FieldList" ->
            [k \in {index_str(i) : i \in 1..Len(value)} |->
                value[CHOOSE i \in 1..Len(value) : index_str(i) = k]]
      [] f.multiple -> [i \in 1..Len(value) |-> ToString(value[i])]
      [] OTHER -> from_python(value)

\* len(d) of a dict
dict_len(d) == Cardinality(DOMAIN d)

\* Field.set_raw_value / FileField.set_raw_value on the multidict md, under
\* the input name key.
Field_set_raw_value(f, key, md, value) ==
    IF f.cls = "FileField" THEN md
    ELSE IF f.multiple THEN md_add_all(md_del(md, key), key, value)
    ELSE md_set(md, key, value)

\* set_raw_value(raw_data, value) of the field f whose parent has the given
\* prefix. mds holds the two multidicts there are, the form's own raw_data
\* (form) and another one (other); arg says which one is passed as raw_data.
RECURSIVE tree_set_raw_value(_, _, _, _, _)
RECURSIVE FieldSet_set_raw_value(_, _, _, _, _)
RECURSIVE FieldList_items(_, _, _, _, _, _)
tree_set_raw_value(f, prefix, mds, arg, value) ==
    LET input == prefix \o <<f.name>>
    IN  CASE f.cls = "FieldSet" ->
                FieldSet_set_raw_value(f.fields, input \o <<".">>, mds, arg,
                                       value)
          [] f.cls = "FieldList" ->
                LET done == FieldList_items(f.fields[1], 1, input \o <<".">>,
                                            mds, arg, value)
                    indeces == [i \in 1..dict_len(value) |-> index_str(i)]
                    indeces_input_name == input \o <<"-indeces">>
                IN  [done EXCEPT !.form =
                        md_add_all(md_del(done.form, indeces_input_name),
                                   indeces_input_name, indeces)]
          [] OTHER ->
                [mds EXCEPT ![arg] =
                    Field_set_raw_value(f, input, mds[arg], value)]

\* The loop of FieldSet.set_raw_value over the sub-fields left.
FieldSet_set_raw_value(fields, prefix, mds, arg, value) ==
    IF fields = <<>> THEN mds
    ELSE LET field == Head(fields)
             subvalue == value[field.name]
         IN  FieldSet_set_raw_value(
                 Tail(fields), prefix,
                 tree_set_raw_value(field, prefix, mds, arg,
                                    field_from_python(field, subvalue)),
                 arg, value)

\* The first loop of FieldList.set_raw_value from index on.
FieldList_items(field, index, prefix, mds, arg, value) ==
    IF index > dict_len(value) THEN mds
    ELSE LET subvalue == value[index_str(index)]
             subfield == [field EXCEPT !.name = index_str(index)]
         IN  FieldList_items(
                 field, index + 1, prefix,
                 tree_set_raw_value(subfield, prefix, mds, arg,
                                    field_from_python(subfield, subvalue)),
                 arg, value)

\* The absolute input names below a field, for the value it is given, and
\* the '-indeces' keys of the lists among them.
RECURSIVE InputNamesOf(_, _, _)
InputNamesOf(f, prefix, value) ==
    LET input == prefix \o <<f.name>>
    IN  CASE f.cls = "FieldSet" ->
                UNION {InputNamesOf(f.fields[i], input \o <<".">>,
                           field_from_python(f.fields[i],
                                             value[f.fields[i].name])) :
                       i \in 1..Len(f.fields)}
          [] f.cls = "FieldList" ->
                {input \o <<"-indeces">>} \cup
                UNION {InputNamesOf([f.fields[1] EXCEPT !.name = index_str(i)],
                           input \o <<".">>,
                           field_from_python(f.fields[1],
                                             value[index_str(i)])) :
                       i \in 1..dict_len(value)}
          [] OTHER -> {input}

\* What the multidicts hold before the call: nothing, or values of an earlier
\* submission.
StaleDicts ==
    {EmptyDict,
     [k \in {<<"a">>, <<"l", "-indeces">>, <<"fl", "-indeces">>} |-> <<"9">>]}

srvIdle ==
    [stage |-> "idle", field |-> AtomField("a", FALSE), value |-> "",
     arg |-> "form", before |-> [form |-> EmptyDict, other |-> EmptyDict],
     after |-> [form |-> EmptyDict, other |-> EmptyDict]]

\* A field of the form, the value to show and the multidict to fill.
InitSrv ==
    \E f \in FieldTrees, arg \in {"form", "other"}, stale \in StaleDicts :
        \E v \in PyValues(f) :
            LET mds == [form |-> stale, other |-> stale]
            IN  srv = [stage |-> "ready", field |-> f,
                       value |-> field_from_python(f, v), arg |-> arg,
                       before |-> mds, after |-> mds]

\* field.set_raw_value(raw_data, value)
SetRawValue ==
    /\ srv.stage = "ready"
    /\ srv' = [srv EXCEPT !.stage = "done",
                   !.after = tree_set_raw_value(srv.field, <<>>, srv.before,
                                                srv.arg, srv.value)]

(***************************************************************************)
(* Part 7: FieldList.accept                                                *)
(* The list is the field "fs" of a form (the name the sub-field helpers of *)
(* Part 4 use); its items are atomic fields with an integer converter. An  *)
(* index is a string, kept as the sequence of its characters.              *)
(***************************************************************************)
MaxIndeces == 3     \* most values submitted under the '-indeces' key

Digits == {"0", "1", "2", "3", "4", "5", "6", "7", "8", "9"}

\* s.strip()
RECURSIVE lstrip(_)
lstrip(s) == IF s # <<>> /\ Head(s) = " " THEN lstrip(Tail(s)) ELSE s
RECURSIVE rstrip(_)
rstrip(s) ==
    IF s # <<>> /\ s[Len(s)] = " " THEN rstrip(SubSeq(s, 1, Len(s) - 1)) ELSE s

\* int(index) returns (TRUE) or raises ValueError (FALSE): blanks around, an
\* optional sign, then one digit or more.
int_parses(index) ==
    LET t == rstrip(lstrip(index))
        d == IF t # <<>> /\ Head(t) \in {"+", "-"} THEN Tail(t) ELSE t
    IN  d # <<>> /\ \A i \in 1..Len(d) : d[i] \in Digits

IndexStrings ==
    {<<"1">>, <<"2">>, <<"0", "1">>, <<" ", "2">>, <<"x">>, <<>>}

\* convs.List.from_python: the list as a dict by '1', '2', ...
List_from_python(value) ==
    [k \in {<<ToString(i)>> : i \in 1..Len(value)} |->
        value[CHOOSE i \in 1..Len(value) : <<ToString(i)>> = k]]

\* FieldList.get_initial
FieldList_get_initial == <<>>

\* AggregateField.python_data of the list: from_python of the clean value, or
\* of the initial value when there is none.
FieldList_python_data(clean) ==
    List_from_python(IF clean # None THEN The(clean) ELSE FieldList_get_initial)

\* self.field(name=str(index)): the item field under that name.
item_field(index, writable) ==
    [cls |-> "Field", name |-> index, writable |-> index \in writable,
     initial |-> None, multiple |-> FALSE]

\* An OrderedDict is the sequence of its (key, value) pairs; d[k] = v
\* replaces the value of a key it has and appends a new key.
od_keys(d) == [i \in 1..Len(d) |-> d[i].key]
od_set(d, k, v) ==
    IF \E i \in 1..Len(d) : d[i].key = k
    THEN [i \in 1..Len(d) |-> IF d[i].key = k THEN [key |-> k, value |-> v]
                              ELSE d[i]]
    ELSE Append(d, [key |-> k, value |-> v])

\* FieldList.accept without the int(index) check.
RECURSIVE accept_any_index(_, _, _, _, _, _)
accept_any_index(indeces, old, writable, raw_data, result, errors) ==
    IF indeces = <<>> THEN [result |-> result, errors |-> errors]
    ELSE LET index == Head(indeces)
             field == item_field(index, writable)
         IN  IF ~field.writable
             THEN accept_any_index(Tail(indeces), old, writable, raw_data,
                      IF index \in DOMAIN old
                      THEN od_set(result, field.name, old[field.name])
                      ELSE result,
                      errors)
             ELSE LET got == Field_accept(field, raw_data, errors)
                  IN  accept_any_index(Tail(indeces), old, writable, raw_data,
                          od_set(result, field.name, got.value), got.errors)

\* The loop of FieldList.accept over the indices left, and the OrderedDict
\* handed to self.conv.accept at its end.
RECURSIVE FieldList_accept_loop(_, _, _, _, _, _)
FieldList_accept_loop(indeces, old, writable, raw_data, result, errors) ==
    IF indeces = <<>> THEN [result |-> result, errors |-> errors]
    ELSE LET index == Head(indeces)
             field == item_field(index, writable)
         IN  IF ~int_parses(index)
             THEN FieldList_accept_loop(Tail(indeces), old, writable, raw_data,
                                        result, errors)
             ELSE IF ~field.writable
             THEN FieldList_accept_loop(Tail(indeces), old, writable, raw_data,
                      IF index \in DOMAIN old
                      THEN od_set(result, field.name, old[field.name])
                      ELSE result,
                      errors)
             ELSE LET got == Field_accept(field, raw_data, errors)
                  IN  FieldList_accept_loop(Tail(indeces), old, writable,
                          raw_data, od_set(result, field.name, got.value),
                          got.errors)

\* FieldList.accept
FieldList_accept(indeces, clean, writable, raw_data) ==
    FieldList_accept_loop(indeces, FieldList_python_data(clean), writable,
                          raw_data, <<>>, {})

\* The clean values of the list, who may write which item, and the raw data
\* of the items.
ListValues == SeqsUpTo({Some(5), Some(6)}, MaxItems)
WritableSets == {IndexStrings, {}, {<<"1">>, <<"x">>}}
ItemRawData ==
    {[k \in {fs_prefix \o <<i>> : i \in IndexStrings} |-> v] :
        v \in {<<"1">>, <<"x">>}}

flIdle ==
    [stage |-> "idle", indeces |-> <<>>, clean |-> None, writable |-> {},
     raw_data |-> [k \in {fs_prefix \o <<i>> : i \in IndexStrings} |-> <<>>],
     result |-> <<>>, errors |-> {}]

InitFl ==
    \E indeces \in SeqsUpTo(IndexStrings, MaxIndeces),
       clean \in {None} \cup {Some(v) : v \in ListValues},
       writable \in WritableSets, raw \in ItemRawData :
        fl = [stage |-> "submitted", indeces |-> indeces, clean |-> clean,
              writable |-> writable, raw_data |-> raw, result |-> <<>>,
              errors |-> {}]

\* FieldList.accept on the submitted data.
FieldListAccept ==
    /\ fl.stage = "submitted"
    /\ LET out == FieldList_accept(fl.indeces, fl.clean, fl.writable,
                                   fl.raw_data)
       IN  fl' = [fl EXCEPT !.stage = "accepted", !.result = out.result,
                            !.errors = out.errors]

(***************************************************************************)
(* Part 8: Widget.prepare_data / Widget.render / NoFieldWidget.render      *)
(***************************************************************************)
\* The widget classes and their `template` attribute.
FieldWidgetClasses ==
    {"TextInput", "Textarea", "HiddenInput", "PasswordInput", "CheckBox",
     "FileInput", "FieldListWidget", "FieldSetWidget"}
NoFieldWidgetClasses == {"NoFieldWidget", "FieldBlock"}
AggregateWidgetClasses == {"FieldListWidget", "FieldSetWidget"}
template_of(cls) ==
    CASE cls = "TextInput" -> "widgets/textinput"
      [] cls = "Textarea" -> "widgets/textarea"
      [] cls = "HiddenInput" -> "widgets/hiddeninput"
      [] cls = "PasswordInput" -> "widgets/passwordinput"
      [] cls = "CheckBox" -> "widgets/checkbox"
      [] cls = "FileInput" -> "widgets/file"
      [] cls = "FieldListWidget" -> "widgets/fieldlist"
      [] cls = "FieldSetWidget" -> "widgets/fieldset"
      [] cls = "FieldBlock" -> "widgets/collapsable_block"
      [] OTHER -> ""

\* A widget: its class and self.field, None for a NoFieldWidget (the class
\* attribute `field = None`), else the field's readable, writable, raw_value.
BoundWidgets ==
    [cls : FieldWidgetClasses,
     field : {Some(f) : f \in [readable : BOOLEAN, writable : BOOLEAN,
                               raw_value : {"", "1", "x"}]}]
UnboundWidgets == [cls : NoFieldWidgetClasses, field : {None}]

\* get_raw_value of Widget, AggregateWidget and NoFieldWidget
get_raw_value(w) ==
    IF w.cls \in AggregateWidgetClasses \cup NoFieldWidgetClasses THEN None
    ELSE Some(The(w.field).raw_value)

\* Widget.prepare_data, which NoFieldWidget inherits: self.field.writable
\* raises AttributeError when self.field is None.
NoData == [raised |-> FALSE, value |-> None, readonly |-> FALSE]
prepare_data(w) ==
    LET value == get_raw_value(w)
    IN  IF w.field = None THEN [NoData EXCEPT !.raised = TRUE]
        ELSE [raised |-> FALSE, value |-> value,
              readonly |-> ~The(w.field).writable]

\* What render() gives: an exception, or the string returned, which is '' or
\* the template rendered with the data.
NoOutput ==
    [raised |-> FALSE, prepared |-> FALSE, rendered |-> FALSE, template |-> "",
     data |-> NoData]
template_render(template, data) ==
    [raised |-> FALSE, prepared |-> TRUE, rendered |-> TRUE,
     template |-> template, data |-> data]
EmptyString == [NoOutput EXCEPT !.prepared = TRUE]

\* Widget.render
Widget_render(w) ==
    LET data == prepare_data(w)
    IN  IF data.raised THEN [NoOutput EXCEPT !.raised = TRUE]
        ELSE IF The(w.field).readable
        THEN template_render(template_of(w.cls), data)
        ELSE EmptyString

\* NoFieldWidget.render
NoFieldWidget_render(w) ==
    LET data == prepare_data(w)
    IN  IF data.raised THEN [NoOutput EXCEPT !.raised = TRUE]
        ELSE template_render(template_of(w.cls), data)

\* widget.render(), by the class of the widget
render(w) ==
    IF w.cls \in NoFieldWidgetClasses THEN NoFieldWidget_render(w)
    ELSE Widget_render(w)

rwIdle == [stage |-> "idle", widget |-> [cls |-> "NoFieldWidget", field |-> None],
           out |-> NoOutput]

InitRw ==
    \E w \in BoundWidgets \cup UnboundWidgets :
        rw = [stage |-> "ready", widget |-> w, out |-> NoOutput]

\* widget.render()
Render ==
    /\ rw.stage = "ready"
    /\ rw' = [rw EXCEPT !.stage = "rendered", !.out = render(rw.widget)]

(***************************************************************************)
(* Part 9: Field.raw_value / _check_value_type / accept with raw values of *)
(* any type. A raw value is known by its type, its truth value and whether *)
(* it has a `read` attribute.                                              *)
(***************************************************************************)
MaxRawValues == 2   \* most values submitted under one input name

PyValue(type, text, truthy, has_read) ==
    [type |-> type, text |-> text, truthy |-> truthy, has_read |-> has_read]
PyStr(text) == PyValue("str", text, text # "", FALSE)
PyNone == PyValue("NoneType", "", FALSE, FALSE)

\* What a MultiDict of form data can hold under a name: strings, uploads
\* (cgi.FieldStorage, true or false as a condition), file objects, and other
\* objects put there by code.
TypedRawValues ==
    {PyStr(""), PyStr("1"), PyValue("unicode", "x", TRUE, FALSE),
     PyValue("FieldStorage", "", TRUE, FALSE),
     PyValue("FieldStorage", "", FALSE, FALSE),
     PyValue("file", "", TRUE, TRUE),
     PyValue("int", "5", TRUE, FALSE), PyValue("int", "0", FALSE, FALSE)}

\* isinstance(value, basestring), isinstance(value, cgi.FieldStorage),
\* hasattr(value, 'read')
isinstance_basestring(value) == value.type \in {"str", "unicode"}
isinstance_FieldStorage(value) == value.type = "FieldStorage"
hasattr_read(value) == value.has_read

\* A Python value that is one object or a list of objects.
One(v) == [list |-> FALSE, items |-> <<v>>]
List(vs) == [list |-> TRUE, items |-> vs]

\* Field._null_value and FileField._null_value
null_value(f) == IF f.cls = "FileField" THEN PyNone ELSE PyStr("")

\* Field.raw_value on the values submitted under the field's input name.
typed_raw_value(f, submitted) ==
    IF f.multiple THEN List(submitted)
    ELSE IF submitted = <<>> THEN One(PyStr(""))
    ELSE One(submitted[Len(submitted)])

\* Field._check_value_type and FileField._check_value_type: the message put
\* in form.errors under the input name, "" when the values pass.
typed_check_value_type(f, values) ==
    LET bad(value) ==
            IF f.cls = "FileField"
            THEN /\ value.truthy
                 /\ ~isinstance_FieldStorage(value)
                 /\ ~hasattr_read(value)
            ELSE ~isinstance_basestring(value)
    IN  IF \E i \in 1..Len(values.items) : bad(values.items[i])
        THEN IF f.cls = "FileField" THEN "Given value is not file"
             ELSE "Given value has incompatible type"
        ELSE ""

\* Field.accept that hands the raw value to the converter whatever the check
\* said.
typed_accept_unchecked(f, submitted) ==
    LET value == typed_raw_value(f, submitted)
        msg == typed_check_value_type(f, value)
    IN  [errors |-> IF msg # "" THEN {<<f.name, msg>>} ELSE {},
         conv_value |-> value]

\* Field.accept: form.errors after it and the value self.conv.accept gets.
typed_accept(f, submitted) ==
    LET value == typed_raw_value(f, submitted)
        msg == typed_check_value_type(f, value)
    IN  IF msg # ""
        THEN [errors |-> {<<f.name, msg>>},
              conv_value |-> IF f.multiple THEN List(<<>>)
                             ELSE One(null_value(f))]
        ELSE [errors |-> {}, conv_value |-> value]

TypedFields == [cls : {"Field", "FileField"}, name : {"a"}, multiple : BOOLEAN]

faIdle ==
    [stage |-> "idle", field |-> [cls |-> "Field", name |-> "a",
                                  multiple |-> FALSE],
     submitted |-> <<>>, errors |-> {}, conv_value |-> List(<<>>)]

InitFa ==
    \E f \in TypedFields, submitted \in SeqsUpTo(TypedRawValues, MaxRawValues) :
        fa = [stage |-> "submitted", field |-> f, submitted |-> submitted,
              errors |-> {}, conv_value |-> List(<<>>)]

\* field.accept()
FieldAccept ==
    /\ fa.stage = "submitted"
    /\ LET out == typed_accept(fa.field, fa.submitted)
       IN  fa' = [fa EXCEPT !.stage = "accepted", !.errors = out.errors,
                            !.conv_value = out.conv_value]

vars == <<declared, obj, pw, storage, issued, loggedOut, last, fs, heap, call, srv, fl, rw, fa>>

(***************************************************************************)
(* Specifications                                                          *)
(***************************************************************************)
InitForms ==
    /\ InitDecl
    /\ pw = pwIdle
    /\ IdleAuth
    /\ fs = fsIdle
    /\ InitCopy
    /\ srv = srvIdle
    /\ fl = flIdle
    /\ rw = rwIdle
    /\ fa = faIdle

NextForms ==
    \/ FormInit /\ UNCHANGED <<pw, authVars, fs, copyVars, srv, fl, rw, fa>>
    \/ FieldSetInit /\ UNCHANGED <<pw, authVars, fs, copyVars, srv, fl, rw, fa>>

SpecInit == InitForms /\ [][NextForms]_vars

InitPassword ==
    /\ InitPw
    /\ declared = <<>>
    /\ obj = NoObject
    /\ IdleAuth
    /\ fs = fsIdle
    /\ InitCopy
    /\ srv = srvIdle
    /\ fl = flIdle
    /\ rw = rwIdle
    /\ fa = faIdle

NextPassword ==
    \/ Encrypt /\ UNCHANGED <<initVars, authVars, fs, copyVars, srv, fl, rw, fa>>
    \/ Check /\ UNCHANGED <<initVars, authVars, fs, copyVars, srv, fl, rw, fa>>

SpecPassword == InitPassword /\ [][NextPassword]_vars

InitAuthSpec ==
    /\ InitAuth
    /\ declared = <<>>
    /\ obj = NoObject
    /\ pw = pwIdle
    /\ fs = fsIdle
    /\ InitCopy
    /\ srv = srvIdle
    /\ fl = flIdle
    /\ rw = rwIdle
    /\ fa = faIdle

NextAuth ==
    \/ LoginIdentity /\ UNCHANGED <<initVars, pw, fs, copyVars, srv, fl, rw, fa>>
    \/ Login /\ UNCHANGED <<initVars, pw, fs, copyVars, srv, fl, rw, fa>>
    \/ Logout /\ UNCHANGED <<initVars, pw, fs, copyVars, srv, fl, rw, fa>>
    \/ Handle /\ UNCHANGED <<initVars, pw, fs, copyVars, srv, fl, rw, fa>>
    \/ AuthRequired /\ UNCHANGED <<initVars, pw, fs, copyVars, srv, fl, rw, fa>>

SpecAuth == InitAuthSpec /\ [][NextAuth]_vars

InitAccept ==
    /\ InitFs
    /\ declared = <<>>
    /\ obj = NoObject
    /\ pw = pwIdle
    /\ IdleAuth
    /\ InitCopy
    /\ srv = srvIdle
    /\ fl = flIdle
    /\ rw = rwIdle
    /\ fa = faIdle

NextAccept ==
    \/ FieldSetAccept /\ UNCHANGED <<initVars, pw, authVars, copyVars, srv, fl, rw, fa>>

SpecAccept == InitAccept /\ [][NextAccept]_vars

InitCopySpec ==
    /\ InitCopy
    /\ srv = srvIdle
    /\ fl = flIdle
    /\ rw = rwIdle
    /\ fa = faIdle
    /\ declared = <<>>
    /\ obj = NoObject
    /\ pw = pwIdle
    /\ IdleAuth
    /\ fs = fsIdle
    /\ srv = srvIdle
    /\ fl = flIdle
    /\ rw = rwIdle
    /\ fa = faIdle

NextCopy ==
    \/ NewWidget /\ UNCHANGED <<initVars, pw, authVars, fs, srv, fl, rw, fa>>
    \/ NewField /\ UNCHANGED <<initVars, pw, authVars, fs, srv, fl, rw, fa>>
    \/ CallField /\ UNCHANGED <<initVars, pw, authVars, fs, srv, fl, rw, fa>>

SpecCopy == InitCopySpec /\ [][NextCopy]_vars

InitSetRaw ==
    /\ InitSrv
    /\ declared = <<>>
    /\ obj = NoObject
    /\ pw = pwIdle
    /\ IdleAuth
    /\ fs = fsIdle
    /\ InitCopy
    /\ fl = flIdle
    /\ rw = rwIdle
    /\ fa = faIdle

NextSetRaw ==
    \/ SetRawValue /\ UNCHANGED <<initVars, pw, authVars, fs, copyVars, fl, rw, fa>>

SpecSetRaw == InitSetRaw /\ [][NextSetRaw]_vars

InitListAccept ==
    /\ InitFl
    /\ declared = <<>>
    /\ obj = NoObject
    /\ pw = pwIdle
    /\ IdleAuth
    /\ fs = fsIdle
    /\ InitCopy
    /\ srv = srvIdle
    /\ rw = rwIdle
    /\ fa = faIdle

NextListAccept ==
    \/ FieldListAccept /\ UNCHANGED <<initVars, pw, authVars, fs, copyVars, srv, rw, fa>>

SpecListAccept == InitListAccept /\ [][NextListAccept]_vars

InitRender ==
    /\ InitRw
    /\ declared = <<>>
    /\ obj = NoObject
    /\ pw = pwIdle
    /\ IdleAuth
    /\ fs = fsIdle
    /\ InitCopy
    /\ srv = srvIdle
    /\ fl = flIdle
    /\ fa = faIdle

NextRender ==
    \/ Render /\ UNCHANGED <<initVars, pw, authVars, fs, copyVars, srv, fl, fa>>

SpecRender == InitRender /\ [][NextRender]_vars

InitFieldAccept ==
    /\ InitFa
    /\ declared = <<>>
    /\ obj = NoObject
    /\ pw = pwIdle
    /\ IdleAuth
    /\ fs = fsIdle
    /\ InitCopy
    /\ srv = srvIdle
    /\ fl = flIdle
    /\ rw = rwIdle

NextFieldAccept ==
    \/ FieldAccept
          /\ UNCHANGED <<initVars, pw, authVars, fs, copyVars, srv, fl, rw>>

SpecFieldAccept == InitFieldAccept /\ [][NextFieldAccept]_vars

(***************************************************************************)
(* Claims                                                                  *)
(***************************************************************************)
\* The declared list holds only fields, NoFieldWidgets and FieldBlocks.
OnlyDeclarableItems == \A i \in 1..Len(declared) : declared[i].kind # "other"

\* The fields of a declared list in declaration order, a FieldBlock replaced
\* by the fields it contains, every NoFieldWidget left out.
RECURSIVE DeclaredFields(_)
DeclaredFields(lst) ==
    IF lst = <<>> THEN <<>>
    ELSE LET x == Head(lst)
             rest == DeclaredFields(Tail(lst))
         IN  IF x.kind = "field" THEN <<x>> \o rest
             ELSE IF x.kind = "block" THEN DeclaredFields(x.fields) \o rest
             ELSE rest

\* C1: after construction, a Form and a FieldSet have `fields` equal to the
\* declared fields in declaration order, each FieldBlock replaced in place by
\* the fields it contains and every NoFieldWidget left out.
C1_FieldsAreTheDeclaredFields ==
    (obj.cls # "none" /\ OnlyDeclarableItems)
        => obj.fields = DeclaredFields(declared)

\* C2: after construction, `widgets` holds exactly one entry per top-level
\* declared item, in declaration order: the field's widget for a field, the
\* item itself for a NoFieldWidget or FieldBlock (so it was computed from the
\* mixed list, not from the flattened one).
C2_OneWidgetPerTopLevelItem ==
    (obj.cls # "none" /\ OnlyDeclarableItems) =>
        /\ Len(obj.widgets) = Len(declared)
        /\ \A i \in 1..Len(declared) :
              obj.widgets[i] = IF declared[i].kind = "field"
                               THEN WidgetOf(declared[i])
                               ELSE declared[i]

\* C2 witness: a constructed Form whose declared list holds a FieldBlock with
\* a field inside, next to a top-level field.
C2_Witness ==
    /\ obj.cls = "Form"
    /\ OnlyDeclarableItems
    /\ \E i, j \in 1..Len(declared) :
          /\ declared[i].kind = "block"
          /\ \E k \in 1..Len(declared[i].fields) :
                declared[i].fields[k].kind = "field"
          /\ declared[j].kind = "field"

\* C6: check_password(raw, encrypt_password(raw, algorithm, salt)) returns
\* True without raising, and the encrypted string splits at '$' into exactly
\* the algorithm, the salt and the digest.
C6_CheckAcceptsEncrypted ==
    /\ pw.stage \in {"encrypted", "checked"} =>
          /\ pw.enc.ok
          /\ Len(split(pw.enc.val.s)) = 3
          /\ split(pw.enc.val.s)[1] = pw.algorithm.s
          /\ split(pw.enc.val.s)[2] = encode_utf8(pw.salt).val.s
    /\ pw.stage = "checked" => (pw.check.ok /\ pw.check.val)

\* The key of the auth cookie of the last request.
LastKey == last.cookies[cookie_name]
LastHasCookie == cookie_name \in DOMAIN last.cookies

\* C3: CookieAuth.handle calls the next handler with a user only if the
\* request carries the auth cookie with a key k, the storage holds an identity
\* under cookie_name:k and the user is the one identify_user finds for that
\* identity; without the cookie, or with a key login_identity never issued,
\* env.user is None.
C3_UserOnlyFromStoredSession ==
    last.op = "handle" =>
        /\ last.called_next
        /\ last.env_user # None =>
              /\ LastHasCookie
              /\ storage[<<"auth", ":", LastKey>>] # None
              /\ \E i \in UserIds :
                    /\ storage[<<"auth", ":", LastKey>>] = {ToString(i)}
                    /\ last.env_user = {UserRow(i)}
        /\ (~LastHasCookie \/ LastKey \notin issued) => last.env_user = None

\* C3 witness: a request with an issued key was handled with a user.
C3_Witness ==
    /\ last.op = "handle"
    /\ LastHasCookie
    /\ LastKey \in issued
    /\ last.env_user # None

C5_LogoutAlwaysRedirects ==
    (last.op = "logout" /\ (~LastHasCookie \/ ~last.had_session)) =>
        /\ ~last.called_next
        /\ last.response.status = 303
        /\ last.response.location \in
               {[path |-> "/login", next |-> None], [path |-> "/", next |-> None]}

\* C8: auth_required calls the next handler iff env has a 'user' entry that
\* is not None; otherwise it answers 303 with Location the login url with
\* next = path_info.
C8_AuthRequired ==
    last.op = "auth_required" =>
        /\ last.called_next <=> (last.env.has_user /\ last.env.user # None)
        /\ ~last.called_next =>
              /\ last.response.status = 303
              /\ last.response.location =
                     [path |-> "/login", next |-> {last.path_info}]

\* C8 witness: env.user is there and None, and the request was redirected.
C8_Witness ==
    /\ last.op = "auth_required"
    /\ last.env.has_user
    /\ last.env.user = None
    /\ ~last.called_next

\* The login request succeeded: a POST, a valid form, an identity.
LoginSucceeds ==
    /\ last.method = "POST"
    /\ last.form_valid
    /\ last.identity # None

LoginNext == IF "next" \in DOMAIN last.GET THEN last.GET["next"] ELSE "/"

\* What the login handler does when the login does not succeed.
LoginRefused ==
    /\ last.response.set_cookie = None
    /\ last.changed = {}
    /\ last.response.status = 200
    /\ last.response.body.template = "login"
    /\ last.response.body.next = LoginNext
    /\ last.response.body.message =
           IF last.method = "POST" /\ last.form_valid /\ last.identity = None
           THEN "user or password is wrong" ELSE ""

OldPythonData == python_data(fs.fields, fs.clean)

\* No other sub-field of the fieldset has the name of sub-field i.
UniqueName(i) ==
    \A j \in 1..Len(fs.fields) : j # i => fs.fields[j].name # fs.fields[i].name

\* C7 as claimed: for every sub-field that is not writable, the converter of
\* the fieldset gets the old python_data value under the field's name and the
\* raw data of the field is overwritten with from_python of that value; a
\* writable sub-field's value is the result of its own accept().
C7_ReadonlySubFieldsKeepTheirValue ==
    fs.stage = "accepted" =>
        \A i \in 1..Len(fs.fields) :
            LET f == fs.fields[i]
                key == <<"fs", ".", f.name>>
            IN  IF ~f.writable
                THEN /\ fs.conv_input[f.name] = OldPythonData[f.name]
                     /\ fs.raw_data[key] = <<from_python(OldPythonData[f.name])>>
                ELSE fs.conv_input[f.name] = Field_accept(f, fs.submitted, {}).value

\* C7 amended: the same for a sub-field whose name no other sub-field shares,
\* except that the raw data of a non-writable FileField stays as submitted
\* (FileField.set_raw_value writes nothing).
C7_ReadonlyUniqueSubFieldsKeepTheirValue ==
    fs.stage = "accepted" =>
        \A i \in 1..Len(fs.fields) :
            LET f == fs.fields[i]
                key == <<"fs", ".", f.name>>
            IN  UniqueName(i) =>
                    IF ~f.writable
                    THEN /\ fs.conv_input[f.name] = OldPythonData[f.name]
                         /\ fs.raw_data[key] =
                                IF f.cls = "FileField" THEN fs.submitted[key]
                                ELSE <<from_python(OldPythonData[f.name])>>
                    ELSE fs.conv_input[f.name]
                             = Field_accept(f, fs.submitted, {}).value

\* C7 witness: accept() ran on a fieldset with a non-writable field for which
\* a value was submitted that differs from the old one, next to a writable
\* field.
C7_Witness ==
    /\ fs.stage = "accepted"
    /\ \E i, j \in 1..Len(fs.fields) :
          /\ fs.fields[i].name # fs.fields[j].name
          /\ ~fs.fields[i].writable
          /\ fs.fields[i].cls = "Field"
          /\ fs.submitted[<<"fs", ".", fs.fields[i].name>>] = <<"1">>
          /\ OldPythonData[fs.fields[i].name] = {2}
          /\ fs.fields[j].writable
          /\ fs.submitted[<<"fs", ".", fs.fields[j].name>>] = <<"1">>

\* The call the last step made, when it was a field call.
CallOrig == call.before[call.orig]
CallParams == dict_merge(CallOrig.kwargs, call.kwargs)
CallCopy == heap[call.result]
IsNew(i) == i \in (Len(call.before) + 1)..Len(heap)

\* C10: calling a field with keyword arguments returns a new instance of the
\* same class whose constructor arguments are the original's overridden by
\* the given ones, whose converter and widget are new objects bound to it,
\* and leaves every object that existed before the call (the original field,
\* its converter, its widget, its stored arguments) as it was; a call refused
\* for obsolete arguments changes nothing.
C10_CallCopiesField ==
    call.op = "call" =>
        IF call.raised THEN heap = call.before
        ELSE /\ IsNew(call.result)
             /\ CallCopy.kind = "field"
             /\ CallCopy.cls = CallOrig.cls
             /\ DOMAIN CallCopy.kwargs = DOMAIN CallParams
             /\ DOMAIN CallCopy.attrs = DOMAIN CallParams
             /\ \A k \in DOMAIN CallParams \ {"conv", "widget"} :
                    /\ CallCopy.kwargs[k] = CallParams[k]
                    /\ CallCopy.attrs[k] = CallParams[k]
             /\ LET c == CallCopy.kwargs.conv.inst
                     w == CallCopy.kwargs.widget.inst
                     oc == call.before[CallOrig.kwargs.conv.inst]
                     ow == call.before[CallOrig.kwargs.widget.inst]
                IN  /\ IsNew(c) /\ IsNew(w) /\ c # w
                    /\ CallCopy.attrs.conv.inst = c
                    /\ CallCopy.attrs.widget.inst = w
                    /\ heap[c].kind = "conv" /\ heap[c].field = call.result
                    /\ heap[c].cls = oc.cls
                    /\ heap[w].kind = "widget" /\ heap[w].field = call.result
                    /\ IF "widget" \in DOMAIN call.kwargs
                       THEN heap[w].cls = call.kwargs.widget.cls
                       ELSE /\ heap[w].cls = ow.cls
                            /\ DOMAIN heap[w].kwargs = DOMAIN ow.kwargs
                            /\ \A k \in DOMAIN ow.kwargs :
                                   heap[w].kwargs[k] = ow.kwargs[k]
             /\ \A i \in 1..Len(call.before) : heap[i] = call.before[i]

\* C10 witness: a field whose widget came from a PasswordInput instance with
\* arguments of its own was called with another name, and the copy was made.
C10_Witness ==
    /\ call.op = "call"
    /\ ~call.raised
    /\ "name" \in DOMAIN call.kwargs
    /\ CallCopy.kwargs.name = "other"
    /\ CallOrig.kwargs.name # "other"
    /\ call.before[CallOrig.kwargs.widget.inst].cls = "PasswordInput"
    /\ DOMAIN call.before[CallOrig.kwargs.widget.inst].kwargs # {}

\* C11: in a constructed container the names of the fields in the flattened
\* `fields` list are pairwise distinct, so that get_field(name) is the only
\* field of that name.
C11_FieldNamesAreUnique ==
    (obj.cls # "none" /\ ~obj.raised) =>
        \A i, j \in 1..Len(obj.fields) :
            (/\ isBaseField(obj.fields[i])
             /\ isBaseField(obj.fields[j])
             /\ obj.fields[i].name = obj.fields[j].name)
                => /\ i = j
                   /\ get_field(obj.fields, obj.fields[i].name) = Some(i)

\* The keys whose values differ between two multidicts.
KeysChanged(md1, md2) ==
    {k \in DOMAIN md1 \cup DOMAIN md2 :
        \/ (k \in DOMAIN md1) # (k \in DOMAIN md2)
        \/ (k \in DOMAIN md1 /\ k \in DOMAIN md2 /\ md1[k] # md2[k])}
SrvNames == InputNamesOf(srv.field, <<>>, srv.value)
SrvOther == IF srv.arg = "form" THEN "other" ELSE "form"

\* C12: set_raw_value(raw_data, value) changes only the multidict it is given,
\* and in it only keys that are input names of the field and the fields below
\* it or '-indeces' keys of the lists; a '-indeces' key the multidict held
\* before is replaced.
C12_OnlyTheGivenMultidictIsFilled ==
    srv.stage = "done" =>
        /\ KeysChanged(srv.before[SrvOther], srv.after[SrvOther]) = {}
        /\ KeysChanged(srv.before[srv.arg], srv.after[srv.arg]) \subseteq SrvNames
        /\ \A k \in SrvNames :
              (k[Len(k)] = "-indeces" /\ k \in DOMAIN srv.after[srv.arg])
                  => srv.after[srv.arg][k] # <<"9">>

\* The indices submitted that parse as integers and are either writable or a
\* key of the old python_data, each once, in the order of their first
\* submission.
RECURSIVE KeptIndeces(_, _)
KeptIndeces(indeces, seen) ==
    IF indeces = <<>> THEN <<>>
    ELSE LET index == Head(indeces)
             keep == /\ index \notin seen
                     /\ int_parses(index)
                     /\ (index \in fl.writable
                            \/ index \in DOMAIN FieldList_python_data(fl.clean))
         IN  (IF keep THEN <<index>> ELSE <<>>)
                 \o KeptIndeces(Tail(indeces), seen \cup {index})

\* C13: the result of FieldList.accept has exactly the submitted indices that
\* parse as integers, in submission order, a non-writable one only when the
\* old python_data has it; a writable item has the result of its own accept,
\* a non-writable one its old value; no other key appears.
C13_ListResultFromSubmittedIndeces ==
    fl.stage = "accepted" =>
        /\ od_keys(fl.result) = KeptIndeces(fl.indeces, {})
        /\ \A i \in 1..Len(fl.result) :
              LET k == fl.result[i].key
              IN  /\ \E j \in 1..Len(fl.indeces) : fl.indeces[j] = k
                  /\ int_parses(k)
                  /\ fl.result[i].value =
                        IF k \in fl.writable
                        THEN Field_accept(item_field(k, fl.writable),
                                          fl.raw_data, {}).value
                        ELSE FieldList_python_data(fl.clean)[k]

\* C13 witness: accept() ran on a submission with an index that is no
\* integer, a writable index and, after it, a non-writable one the old
\* python_data has.
C13_Witness ==
    /\ fl.stage = "accepted"
    /\ \E j \in 1..Len(fl.indeces) : ~int_parses(fl.indeces[j])
    /\ Len(fl.result) = 2
    /\ fl.result[1].key \in fl.writable
    /\ fl.result[2].key \notin fl.writable
    /\ fl.result[2].value = {6}

\* C14: render() of a widget bound to a field that is not readable prepares
\* the data and returns '' without rendering the template; for a readable
\* field the template is rendered with readonly = not field.writable; a
\* NoFieldWidget always renders its template.
C14_RenderRespectsReadable ==
    rw.stage = "rendered" =>
        /\ ~rw.out.raised
        /\ rw.out.prepared
        /\ IF rw.widget.field = None THEN rw.out.rendered
           ELSE IF ~The(rw.widget.field).readable THEN ~rw.out.rendered
           ELSE /\ rw.out.rendered
                /\ rw.out.data.readonly = ~The(rw.widget.field).writable
        /\ rw.out.rendered => rw.out.template = template_of(rw.widget.cls)

\* The raw values accept() looked at, and whether one of them has a type the
\* field does not take.
FaValues == typed_raw_value(fa.field, fa.submitted).items
FaRejected ==
    \E i \in 1..Len(FaValues) :
        IF fa.field.cls = "FileField"
        THEN /\ FaValues[i].truthy
             /\ FaValues[i].type # "FieldStorage"
             /\ ~FaValues[i].has_read
        ELSE FaValues[i].type \notin {"str", "unicode"}

\* C15: when a raw value of the field has an incompatible type, accept()
\* records the error under the input name and the converter gets the null
\* value ('' for a Field, None for a FileField, [] for a multiple field);
\* otherwise no error is recorded and the converter gets the raw value.
C15_ConverterNeverGetsWrongType ==
    fa.stage = "accepted" =>
        IF FaRejected
        THEN /\ fa.errors =
                  {<<fa.field.name,
                     IF fa.field.cls = "FileField" THEN "Given value is not file"
                     ELSE "Given value has incompatible type">>}
             /\ fa.conv_value.list = fa.field.multiple
             /\ fa.conv_value.items =
                  IF fa.field.multiple THEN <<>>
                  ELSE IF fa.field.cls = "FileField" THEN <<PyNone>>
                  ELSE <<PyStr("")>>
        ELSE /\ fa.errors = {}
             /\ fa.conv_value.list = fa.field.multiple
             /\ fa.conv_value.items = FaValues

\* C15 witness: a multiple Field was given a string and an upload, and the
\* converter got the empty list.
C15_Witness ==
    /\ fa.stage = "accepted"
    /\ fa.field.cls = "Field"
    /\ fa.field.multiple
    /\ Len(fa.submitted) = 2
    /\ fa.submitted[1].type = "str"
    /\ fa.submitted[2].type = "FieldStorage"
    /\ fa.conv_value.items = <<>>
    /\ fa.errors # {}

\* What a request carrying key k observes: the user CookieAuth.handle finds
\* for it in the storage st, for every content of the user table.
Observed(st, k) ==
    [db \in SUBSET UserIds |->
        handle(st, [c \in {cookie_name} |-> k], db, TRUE)]

\* The key a handled request was about: the one a login generated, the one
\* of the cookie of a logout; None for any other request.
RequestKey(l) ==
    IF l.op \in {"login", "login_identity"} THEN l.response.set_cookie
    ELSE IF l.op = "logout" /\ cookie_name \in DOMAIN l.cookies
    THEN Some(l.cookies[cookie_name])
    ELSE None

\* C16 as claimed: no request handled changes what any request observes.
C16_RequestsShareNoState ==
    [][\A k \in Keys : Observed(storage', k) = Observed(storage, k)]_vars

\* The storage with every entry but the one of key k removed.
OnlyEntryOf(st, k) ==
    [sk \in StorageKeys |-> IF sk = StorageKey(k) THEN st[sk] ELSE None]

\* C16 amended: the storage is shared between requests; the request handled
\* last changed at most the entry under its own key (the key a login
\* generated, the key of a logout's cookie; none for a request passing
\* through handle or auth_required), and what a request carrying key k
\* observes depends on the entry under k alone, so that it is unaffected by
\* a login or logout with another key.
C16_OnlyOwnKeyAffected ==
    /\ last.changed \subseteq {StorageKey(k) : k \in RequestKey(last)}
    /\ \A k \in Keys : Observed(storage, k) = Observed(OnlyEntryOf(storage, k), k)

\* C16 witness: a logout ended the session of its key while the storage
\* holds a session under another key.
C16_Witness ==
    /\ last.op = "logout"
    /\ LastHasCookie
    /\ last.changed = {StorageKey(LastKey)}
    /\ \E k \in Keys : k # LastKey /\ storage[StorageKey(k)] # None

====
